---- MODULE Spec2Model ----
(***************************************************************************)
(* Model of the document service of server/main.py: the upload, download,  *)
(* list and delete handlers over the upload directory (a file system) and  *)
(* the documents table (SQLite).  Every handler is cut at its awaits: one  *)
(* action per segment that touches the file system or the database.        *)
(***************************************************************************)
EXTENDS Integers, Sequences, FiniteSets, TLC

(***************************************************************************)
(* Bounds of the model.                                                    *)
(***************************************************************************)
\* requests in one run; any number of them may be in flight together
MaxReqs == 2
\* documents the stores hold when the run starts
MaxStored == 1
\* injected I/O or database failures in one run
MaxFaults == 1
\* the last value of the clock, which counts half seconds from 0
MaxClock == 1

(***************************************************************************)
(* Program constants.                                                      *)
(***************************************************************************)
MAX_FILE_SIZE == 10 * 1024 * 1024
HEADER_BYTES == 1024
RAND_LO == 1000
RAND_HI == 9999

\* request p runs in slot p
Procs == 1..MaxReqs

Min(a, b) == IF a < b THEN a ELSE b
Max(a, b) == IF a > b THEN a ELSE b

(***************************************************************************)
(* Text.  A string is a sequence of one-character strings.                 *)
(***************************************************************************)
UPLOAD_DIR == <<"s","e","r","v","e","r","/","u","p","l","o","a","d","s">>

Lower(ch) ==
    CASE ch = "A" -> "a" [] ch = "B" -> "b" [] ch = "D" -> "d"
      [] ch = "F" -> "f" [] ch = "P" -> "p" [] ch = "T" -> "t"
      [] ch = "X" -> "x" [] OTHER -> ch

\* str.lower()
lower(s) == [i \in 1..Len(s) |-> Lower(s[i])]

\* str.endswith(suffix)
endswith(s, suffix) ==
    /\ Len(s) >= Len(suffix)
    /\ SubSeq(s, Len(s) - Len(suffix) + 1, Len(s)) = suffix

\* str(n) for n >= 0
Digit(d) == <<"0","1","2","3","4","5","6","7","8","9">>[d + 1]
RECURSIVE IntToStr(_)
IntToStr(n) == IF n < 10 THEN <<Digit(n)>>
               ELSE IntToStr(n \div 10) \o <<Digit(n % 10)>>

\* os.path.splitext: the extension starts at the last dot of the last path
\* component, unless only dots precede it there
splitext(p) ==
    LET sepIndex == IF \E i \in 1..Len(p) : p[i] = "/"
                    THEN CHOOSE i \in 1..Len(p) :
                           p[i] = "/" /\ \A j \in (i+1)..Len(p) : p[j] # "/"
                    ELSE 0
        dots == {i \in (sepIndex+1)..Len(p) : p[i] = "."}
        dotIndex == IF dots = {} THEN 0
                    ELSE CHOOSE i \in dots : \A j \in dots : j <= i
        hasExt == /\ dotIndex > sepIndex
                  /\ \E k \in (sepIndex+1)..(dotIndex-1) : p[k] # "."
    IN  IF hasExt
        THEN <<SubSeq(p, 1, dotIndex - 1), SubSeq(p, dotIndex, Len(p))>>
        ELSE <<p, <<>> >>

(***************************************************************************)
(* Bytes.  A content is the bytes pre followed by pad zero bytes, so that  *)
(* a body of MAX_FILE_SIZE bytes is one small value.  pre never ends in a  *)
(* zero byte.                                                              *)
(***************************************************************************)
Bytes(pre, pad) == [pre |-> pre, pad |-> pad]
EmptyBytes == Bytes(<<>>, 0)
ByteLen(c) == Len(c.pre) + c.pad
ByteAt(c, i) == IF i <= Len(c.pre) THEN c.pre[i] ELSE 0

RECURSIVE Canon(_)
Canon(c) == IF Len(c.pre) > 0 /\ c.pre[Len(c.pre)] = 0
            THEN Canon(Bytes(SubSeq(c.pre, 1, Len(c.pre) - 1), c.pad + 1))
            ELSE c

\* the first n bytes of c
Prefix(c, n) ==
    IF n >= ByteLen(c) THEN c
    ELSE Canon(Bytes(SubSeq(c.pre, 1, Min(n, Len(c.pre))),
                     Max(0, n - Len(c.pre))))

\* bytes.startswith(sig), sig a sequence of byte values
startswith(c, sig) ==
    /\ ByteLen(c) >= Len(sig)
    /\ \A i \in 1..Len(sig) : ByteAt(c, i) = sig[i]

\* the file data after new is written at offset 0 over old
WriteOver(old, new) ==
    LET total == Max(ByteLen(old), ByteLen(new))
        shown == Min(total, Max(Len(old.pre), Len(new.pre)))
    IN  Canon(Bytes([i \in 1..shown |->
                       IF i <= ByteLen(new) THEN ByteAt(new, i)
                       ELSE ByteAt(old, i)],
                    total - shown))

\* file.read() at position pos: the bytes from pos to the end
ReadAll(c, pos) ==
    IF pos >= ByteLen(c) THEN EmptyBytes
    ELSE IF pos < Len(c.pre)
    THEN Bytes(SubSeq(c.pre, pos + 1, Len(c.pre)), c.pad)
    ELSE Bytes(<<>>, ByteLen(c) - pos)

\* b'%PDF'
PDF_SIGNATURE == <<37, 80, 68, 70>>

(***************************************************************************)
(* Pure helpers of main.py.                                                *)
(***************************************************************************)
\* validate_pdf_file with the extension compared without lower()
validate_pdf_file_CaseSensitive(filename, content) ==
    IF ~endswith(filename, <<".","p","d","f">>) THEN FALSE
    ELSE LET header == Prefix(content, HEADER_BYTES)
         IN  startswith(header, PDF_SIGNATURE)

\* validate_pdf_file without the check of the signature
validate_pdf_file_ExtensionOnly(filename, content) ==
    endswith(lower(filename), <<".","p","d","f">>)

\* validate_pdf_file: extension check, then the first 1024 bytes of the body
validate_pdf_file(filename, content) ==
    IF ~endswith(lower(filename), <<".","p","d","f">>) THEN FALSE
    ELSE LET header == Prefix(content, HEADER_BYTES)
         IN  startswith(header, PDF_SIGNATURE)

\* the stream position validate_pdf_file leaves: a file name that fails the
\* extension check leaves it alone (line 71); otherwise seek(0), read(1024)
\* and the seek(0) of line 78
validate_pdf_file_tell(filename, content, pos) ==
    IF ~endswith(lower(filename), <<".","p","d","f">>) THEN pos
    ELSE 0

\* MeasureSize without the seek(0) of line 127
MeasureSize_NoRewind(content, pos) ==
    LET end == ByteLen(content)
    IN  [file_size |-> end, pos |-> end]

\* lines 125-127: seek(0, 2), tell(), seek(0)
MeasureSize(content, pos) ==
    LET end == ByteLen(content)
    IN  [file_size |-> end, pos |-> 0]

\* generate_unique_filename, given the values time.time() and random.randint
\* returned
generate_unique_filename(original_filename, timestamp, random_suffix) ==
    LET parts == splitext(original_filename)
    IN  IntToStr(timestamp) \o <<"-">> \o IntToStr(random_suffix) \o <<"-">>
          \o parts[1] \o parts[2]

\* UPLOAD_DIR / unique_filename, as str(file_path)
PathOf(unique_filename) == UPLOAD_DIR \o <<"/">> \o unique_filename

(***************************************************************************)
(* State.                                                                  *)
(***************************************************************************)
VARIABLES
    fs,               \* the files: path -> [ino, data]
    documents,        \* the committed rows of table documents
    sqlite_sequence,  \* the AUTOINCREMENT counter of table documents
    writer,           \* the request holding the database write lock, or 0
    now,              \* the wall clock when it was last read, in half seconds
    rq,               \* rq[p]: the request in slot p, its locals and result
    nreq,             \* requests started so far
    faults,           \* failures injected so far
    created,          \* history: <<request, row>> for every row ever committed
    uploaded,         \* history: id -> body, for uploads answered with success
    delIssued         \* history: ids for which a delete request was started

vars == <<fs, documents, sqlite_sequence, writer, now, rq, nreq, faults,
          created, uploaded, delIssued>>

\* int(time.time()): whole seconds; datetime.now() keeps the fraction
Seconds(t) == t \div 2

\* the time that may have passed since the clock was last read
Elapsed == {d \in 0..1 : now + d <= MaxClock}

Idle == [op |-> "none", pc |-> "idle",
         filename |-> <<>>, content |-> EmptyBytes,
         unique_filename |-> <<>>, file_path |-> <<>>, file_size |-> 0,
         pos |-> 0, fd |-> 0, created_at |-> 0, lastrowid |-> 0,
         document_id |-> 0, doc_row |-> {}, rowcount |-> 0,
         status |-> 0, detail |-> "", sent |-> EmptyBytes, listing |-> <<>>,
         fault |-> "", unlinkFailed |-> FALSE, found |-> FALSE,
         known |-> FALSE]

Row(id, filename, original_name, filepath, filesize, created_at) ==
    [id |-> id, filename |-> filename, original_name |-> original_name,
     filepath |-> filepath, filesize |-> filesize, created_at |-> created_at]

Exists(path) == path \in DOMAIN fs
Unlink(path) == [q \in DOMAIN fs \ {path} |-> fs[q]]

\* the inode number a newly created file gets: one no file and no open
\* descriptor uses
FreshIno ==
    LET used == {fs[q].ino : q \in DOMAIN fs} \cup {rq[p].fd : p \in Procs}
    IN  CHOOSE n \in 1..(Cardinality(used) + 1) : n \notin used

\* SELECT * FROM documents WHERE id = ?
SelectById(id) == {r \in documents : r.id = id}

CanStart(p) == p = nreq + 1

CanFail == faults < MaxFaults

\* the end of a request: its answer, and what the history needs of it
Finish(r, status, detail) ==
    [Idle EXCEPT !.op = r.op, !.pc = "done", !.status = status,
                 !.detail = detail, !.filename = r.filename,
                 !.content = r.content, !.document_id = r.document_id,
                 !.sent = r.sent, !.listing = r.listing,
                 !.fault = r.fault, !.unlinkFailed = r.unlinkFailed,
                 !.found = r.found,
                 !.known = r.known /\ r.document_id \notin delIssued]

Pdf(tail, pad) == Bytes(PDF_SIGNATURE \o tail, pad)

\* the uploads of the concurrent specification: one file name and one body;
\* every draw of random.randint(1000, 9999) returns the same value, so two
\* keys differ exactly when their seconds differ
FileNames == {<<"a",".","p","d","f">>}
Contents == {Pdf(<<49, 50>>, 0)}
RandomSuffixes == {RAND_LO}

\* the body of the documents earlier runs stored
StoredBody == Pdf(<<>>, 0)

\* Startup keeps what earlier runs stored (CREATE TABLE IF NOT EXISTS,
\* mkdir(exist_ok=True)).  The stores start empty, or hold the documents
\* 1..n of n earlier uploads of one file that succeeded one after the other
\* at clock 0 and drew different suffixes (request 0 in the history).
StoredRow(i) ==
    LET name == CHOOSE f \in FileNames : TRUE
        unique_filename == generate_unique_filename(name, Seconds(0),
                                                    RAND_LO + i - 1)
    IN  Row(i, unique_filename, name, PathOf(unique_filename),
            ByteLen(StoredBody), 0)

Init ==
    \E n \in 0..MaxStored :
        /\ fs = [path \in {StoredRow(i).filepath : i \in 1..n} |->
                   [ino |-> CHOOSE i \in 1..n : StoredRow(i).filepath = path,
                    data |-> StoredBody]]
        /\ documents = {StoredRow(i) : i \in 1..n}
        /\ sqlite_sequence = n
        /\ writer = 0
        /\ now = 0
        /\ rq = [p \in Procs |-> Idle]
        /\ nreq = 0
        /\ faults = 0
        /\ created = {<<0, StoredRow(i)>> : i \in 1..n}
        /\ uploaded = [i \in 1..n |-> StoredBody]
        /\ delIssued = {}

(***************************************************************************)
(* upload_document                                                         *)
(***************************************************************************)
\* UploadResult with the size limit compared by >= instead of >
UploadResult_OffByOne(r, filename, content, timestamp, random_suffix) ==
    LET measured == MeasureSize(content,
                                validate_pdf_file_tell(filename, content, r.pos))
        file_size == measured.file_size
        unique_filename ==
            generate_unique_filename(filename, timestamp, random_suffix)
        r1 == [r EXCEPT !.filename = filename, !.content = content]
    IN  IF ~validate_pdf_file(filename, content)
        THEN Finish(r1, 400, "Only PDF files are allowed")
        ELSE IF file_size >= MAX_FILE_SIZE
        THEN Finish([r1 EXCEPT !.file_size = file_size], 400,
                    "File size exceeds 10MB limit")
        ELSE IF file_size = 0
        THEN Finish([r1 EXCEPT !.file_size = file_size], 400,
                    "Empty file not allowed")
        ELSE [r1 EXCEPT !.file_size = file_size,
                        !.pos = measured.pos,
                        !.unique_filename = unique_filename,
                        !.file_path = PathOf(unique_filename),
                        !.pc = "open"]

\* lines 116-143: validation, size check and key generation, up to the first
\* await
UploadResult(r, filename, content, timestamp, random_suffix) ==
    LET measured == MeasureSize(content,
                                validate_pdf_file_tell(filename, content, r.pos))
        file_size == measured.file_size
        unique_filename ==
            generate_unique_filename(filename, timestamp, random_suffix)
        r1 == [r EXCEPT !.filename = filename, !.content = content]
    IN  IF ~validate_pdf_file(filename, content)
        THEN Finish(r1, 400, "Only PDF files are allowed")
        ELSE IF file_size > MAX_FILE_SIZE
        THEN Finish([r1 EXCEPT !.file_size = file_size], 400,
                    "File size exceeds 10MB limit")
        ELSE IF file_size = 0
        THEN Finish([r1 EXCEPT !.file_size = file_size], 400,
                    "Empty file not allowed")
        ELSE [r1 EXCEPT !.file_size = file_size,
                        !.pos = measured.pos,
                        !.unique_filename = unique_filename,
                        !.file_path = PathOf(unique_filename),
                        !.pc = "open"]

UploadBegin(p, filename, content, random_suffix) ==
    /\ CanStart(p)
    /\ nreq' = nreq + 1
    /\ \E d \in Elapsed : now' = now + d
    /\ rq' = [rq EXCEPT ![p] =
                UploadResult([Idle EXCEPT !.op = "upload"],
                             filename, content, Seconds(now'), random_suffix)]
    /\ UNCHANGED <<fs, documents, sqlite_sequence, writer, faults,
                   created, uploaded, delIssued>>

\* line 146: aiofiles.open(file_path, 'wb') creates the file or truncates it
OpenWb(path) ==
    IF Exists(path) THEN [fs EXCEPT ![path].data = EmptyBytes]
    ELSE (path :> [ino |-> FreshIno, data |-> EmptyBytes]) @@ fs

UpOpen(p) ==
    /\ rq[p].op = "upload" /\ rq[p].pc = "open"
    /\ fs' = OpenWb(rq[p].file_path)
    /\ rq' = [rq EXCEPT ![p].pc = "write",
                        ![p].fd = fs'[rq[p].file_path].ino]
    /\ UNCHANGED <<documents, sqlite_sequence, writer, now, nreq, faults,
                   created, uploaded, delIssued>>

UpOpenFail(p) ==
    /\ rq[p].op = "upload" /\ rq[p].pc = "open"
    /\ CanFail
    /\ faults' = faults + 1
    /\ rq' = [rq EXCEPT ![p].pc = "cleanup", ![p].fault = rq[p].pc]
    /\ UNCHANGED <<fs, documents, sqlite_sequence, writer, now, nreq,
                   created, uploaded, delIssued>>

\* lines 147-148: document.read() returns the bytes from the stream position
\* on; they go to the file the descriptor names, which is the
\* file at file_path only while nobody has unlinked it
WriteFd(path, fd, bytes) ==
    IF Exists(path) /\ fs[path].ino = fd
    THEN [fs EXCEPT ![path].data = WriteOver(fs[path].data, bytes)]
    ELSE fs

UpWrite(p) ==
    /\ rq[p].op = "upload" /\ rq[p].pc = "write"
    /\ fs' = WriteFd(rq[p].file_path, rq[p].fd,
                     ReadAll(rq[p].content, rq[p].pos))
    /\ rq' = [rq EXCEPT ![p].pc = "stamp", ![p].fd = 0]
    /\ UNCHANGED <<documents, sqlite_sequence, writer, now, nreq, faults,
                   created, uploaded, delIssued>>

\* UpWriteFail with the exception swallowed: the handler goes on to the
\* insert
UpWriteFail_Swallowed(p) ==
    /\ rq[p].op = "upload" /\ rq[p].pc = "write"
    /\ CanFail
    /\ faults' = faults + 1
    /\ \E k \in {0, rq[p].file_size - 1} :
         fs' = WriteFd(rq[p].file_path, rq[p].fd,
                       Prefix(ReadAll(rq[p].content, rq[p].pos), k))
    /\ rq' = [rq EXCEPT ![p].pc = "stamp", ![p].fd = 0,
                        ![p].fault = rq[p].pc]
    /\ UNCHANGED <<documents, sqlite_sequence, writer, now, nreq,
                   created, uploaded, delIssued>>

\* a write that fails has stored none of the bytes, or all but the last
UpWriteFail(p) ==
    /\ rq[p].op = "upload" /\ rq[p].pc = "write"
    /\ CanFail
    /\ faults' = faults + 1
    /\ \E k \in {0, rq[p].file_size - 1} :
         fs' = WriteFd(rq[p].file_path, rq[p].fd,
                       Prefix(ReadAll(rq[p].content, rq[p].pos), k))
    /\ rq' = [rq EXCEPT ![p].pc = "cleanup", ![p].fd = 0,
                        ![p].fault = rq[p].pc]
    /\ UNCHANGED <<documents, sqlite_sequence, writer, now, nreq,
                   created, uploaded, delIssued>>

\* line 151: created_at = datetime.now()
UpStamp(p) ==
    /\ rq[p].op = "upload" /\ rq[p].pc = "stamp"
    /\ \E d \in Elapsed : now' = now + d
    /\ rq' = [rq EXCEPT ![p].pc = "insert", ![p].created_at = now']
    /\ UNCHANGED <<fs, documents, sqlite_sequence, writer, nreq, faults,
                   created, uploaded, delIssued>>

\* NextRowid of a table without AUTOINCREMENT: one more than the largest id
\* of the rows there are
NextRowid_MaxPlusOne ==
    IF documents = {} THEN 1
    ELSE 1 + (CHOOSE n \in {r.id : r \in documents} :
                \A r \in documents : r.id <= n)

\* lines 152-155: INSERT opens a write transaction; AUTOINCREMENT (line 47)
\* picks one more than the largest id the table ever held
NextRowid == sqlite_sequence + 1

UpInsert(p) ==
    /\ rq[p].op = "upload" /\ rq[p].pc = "insert"
    /\ writer = 0
    /\ writer' = p
    /\ rq' = [rq EXCEPT ![p].pc = "commit", ![p].lastrowid = NextRowid]
    /\ UNCHANGED <<fs, documents, sqlite_sequence, now, nreq, faults,
                   created, uploaded, delIssued>>

UpInsertFail(p) ==
    /\ rq[p].op = "upload" /\ rq[p].pc = "insert"
    /\ CanFail
    /\ faults' = faults + 1
    /\ rq' = [rq EXCEPT ![p].pc = "cleanup", ![p].fault = rq[p].pc]
    /\ UNCHANGED <<fs, documents, sqlite_sequence, writer, now, nreq,
                   created, uploaded, delIssued>>

\* the row INSERT ... VALUES (unique_filename, document.filename,
\* str(file_path), file_size, created_at) adds
InsertedRow(r) ==
    Row(r.lastrowid, r.unique_filename, r.filename, r.file_path,
        r.file_size, r.created_at)

\* line 157: db.commit()
UpCommit(p) ==
    /\ rq[p].op = "upload" /\ rq[p].pc = "commit"
    /\ documents' = documents \cup {InsertedRow(rq[p])}
    /\ created' = created \cup {<<p, InsertedRow(rq[p])>>}
    /\ sqlite_sequence' = rq[p].lastrowid
    /\ writer' = 0
    /\ rq' = [rq EXCEPT ![p].pc = "reread"]
    /\ UNCHANGED <<fs, now, nreq, faults, uploaded, delIssued>>

UpCommitFail(p) ==
    /\ rq[p].op = "upload" /\ rq[p].pc = "commit"
    /\ CanFail
    /\ faults' = faults + 1
    /\ rq' = [rq EXCEPT ![p].pc = "cleanup", ![p].fault = rq[p].pc]
    /\ UNCHANGED <<fs, documents, sqlite_sequence, writer, now, nreq,
                   created, uploaded, delIssued>>

\* UpReread with the failure to retrieve the row handled like any other
\* exception, by the clean-up of lines 182-190
UpReread_Rollback(p) ==
    /\ rq[p].op = "upload" /\ rq[p].pc = "reread"
    /\ LET doc_row == SelectById(rq[p].lastrowid)
       IN  IF doc_row = {}
           THEN /\ rq' = [rq EXCEPT ![p].pc = "cleanup"]
                /\ UNCHANGED uploaded
           ELSE /\ rq' = [rq EXCEPT ![p] =
                            [Finish(rq[p], 200,
                                    "Document uploaded successfully")
                               EXCEPT !.doc_row = doc_row]]
                /\ uploaded' = (rq[p].lastrowid :> rq[p].content) @@ uploaded
    /\ UNCHANGED <<fs, documents, sqlite_sequence, writer, now, nreq, faults,
                   created, delIssued>>

\* lines 159-181: re-read of the inserted row, and the answer; the
\* HTTPException of line 167 is raised again by lines 179-181
UpReread(p) ==
    /\ rq[p].op = "upload" /\ rq[p].pc = "reread"
    /\ LET doc_row == SelectById(rq[p].lastrowid)
       IN  IF doc_row = {}
           THEN /\ rq' = [rq EXCEPT ![p] =
                            Finish(rq[p], 500,
                                   "Failed to retrieve uploaded document")]
                /\ UNCHANGED uploaded
           ELSE /\ rq' = [rq EXCEPT ![p] =
                            [Finish(rq[p], 200,
                                    "Document uploaded successfully")
                               EXCEPT !.doc_row = doc_row]]
                /\ uploaded' = (rq[p].lastrowid :> rq[p].content) @@ uploaded
    /\ UNCHANGED <<fs, documents, sqlite_sequence, writer, now, nreq, faults,
                   created, delIssued>>

\* the SELECT of lines 160-164 raises: the row is committed already, and the
\* handler of lines 182-190 runs
UpRereadFail(p) ==
    /\ rq[p].op = "upload" /\ rq[p].pc = "reread"
    /\ CanFail
    /\ faults' = faults + 1
    /\ rq' = [rq EXCEPT ![p].pc = "cleanup", ![p].fault = rq[p].pc]
    /\ UNCHANGED <<fs, documents, sqlite_sequence, writer, now, nreq,
                   created, uploaded, delIssued>>

\* lines 182-190: the handler of any other exception removes whatever file is
\* at file_path; closing the connection rolls an open transaction back
Release(p) == IF writer = p THEN 0 ELSE writer

\* CleanupFs without the unlink
CleanupFs_Keep(path) == fs

CleanupFs(path) == IF Exists(path) THEN Unlink(path) ELSE fs

UpCleanup(p) ==
    /\ rq[p].op = "upload" /\ rq[p].pc = "cleanup"
    /\ fs' = CleanupFs(rq[p].file_path)
    /\ writer' = Release(p)
    /\ rq' = [rq EXCEPT ![p] =
                Finish(rq[p], 500, "Internal server error during upload")]
    /\ UNCHANGED <<documents, sqlite_sequence, now, nreq, faults,
                   created, uploaded, delIssued>>

\* file_path.unlink() itself raises: a second failure of a request that
\* has failed already
UpCleanupFail(p) ==
    /\ rq[p].op = "upload" /\ rq[p].pc = "cleanup"
    /\ Exists(rq[p].file_path)
    /\ faults' = faults + 1
    /\ writer' = Release(p)
    /\ rq' = [rq EXCEPT ![p] =
                Finish([rq[p] EXCEPT !.unlinkFailed = TRUE], 500,
                       "Internal Server Error")]
    /\ UNCHANGED <<fs, documents, sqlite_sequence, now, nreq,
                   created, uploaded, delIssued>>

(***************************************************************************)
(* download_document                                                       *)
(***************************************************************************)
\* lines 228-238: the row lookup
DownloadBegin(p, document_id) ==
    /\ CanStart(p)
    /\ nreq' = nreq + 1
    /\ LET doc_row == SelectById(document_id)
           r == [Idle EXCEPT !.op = "download",
                             !.document_id = document_id,
                             !.doc_row = doc_row,
                             !.found = (doc_row # {}),
                             !.known = (document_id \in DOMAIN uploaded
                                        /\ document_id \notin delIssued)]
       IN  rq' = [rq EXCEPT ![p] =
                    IF doc_row = {} THEN Finish(r, 404, "Document not found")
                    ELSE [r EXCEPT !.pc = "check"]]
    /\ UNCHANGED <<fs, documents, sqlite_sequence, writer, now, faults,
                   created, uploaded, delIssued>>

TheRow(r) == CHOOSE row \in r.doc_row : TRUE

\* lines 240-252: the existence check; the handler returns a FileResponse
\* that names the path and reads nothing yet
DlCheck(p) ==
    /\ rq[p].op = "download" /\ rq[p].pc = "check"
    /\ LET file_path == TheRow(rq[p]).filepath
       IN  rq' = [rq EXCEPT ![p] =
                    IF ~Exists(file_path)
                    THEN Finish(rq[p], 404, "File not found on disk")
                    ELSE [rq[p] EXCEPT !.pc = "send",
                                       !.file_path = file_path]]
    /\ UNCHANGED <<fs, documents, sqlite_sequence, writer, now, nreq, faults,
                   created, uploaded, delIssued>>

\* the FileResponse of lines 248-252 is sent after the handler returned: it
\* reads the file then, and a missing file is an error raised outside the
\* handler's try block
SendFile(r) ==
    IF Exists(r.file_path)
    THEN Finish([r EXCEPT !.sent = fs[r.file_path].data], 200, "")
    ELSE Finish(r, 500, "Internal Server Error")

DlSend(p) ==
    /\ rq[p].op = "download" /\ rq[p].pc = "send"
    /\ rq' = [rq EXCEPT ![p] = SendFile(rq[p])]
    /\ UNCHANGED <<fs, documents, sqlite_sequence, writer, now, nreq, faults,
                   created, uploaded, delIssued>>

(***************************************************************************)
(* delete_document                                                         *)
(***************************************************************************)
\* lines 270-281: the row lookup
DeleteBegin(p, document_id) ==
    /\ CanStart(p)
    /\ nreq' = nreq + 1
    /\ delIssued' = delIssued \cup {document_id}
    /\ LET doc_row == SelectById(document_id)
           r == [Idle EXCEPT !.op = "delete",
                             !.document_id = document_id,
                             !.doc_row = doc_row,
                             !.found = (doc_row # {})]
       IN  rq' = [rq EXCEPT ![p] =
                    IF doc_row = {} THEN Finish(r, 404, "Document not found")
                    ELSE [r EXCEPT !.pc = "unlink"]]
    /\ UNCHANGED <<fs, documents, sqlite_sequence, writer, now, faults,
                   created, uploaded>>

\* lines 283-286: the file goes first
DeleteFile(path) == IF Exists(path) THEN Unlink(path) ELSE fs

DelUnlink(p) ==
    /\ rq[p].op = "delete" /\ rq[p].pc = "unlink"
    /\ fs' = DeleteFile(TheRow(rq[p]).filepath)
    /\ rq' = [rq EXCEPT ![p].pc = "exec"]
    /\ UNCHANGED <<documents, sqlite_sequence, writer, now, nreq, faults,
                   created, uploaded, delIssued>>

DelUnlinkFail(p) ==
    /\ rq[p].op = "delete" /\ rq[p].pc = "unlink"
    /\ Exists(TheRow(rq[p]).filepath)
    /\ CanFail
    /\ faults' = faults + 1
    /\ rq' = [rq EXCEPT ![p] =
                Finish([rq[p] EXCEPT !.fault = rq[p].pc], 500,
                       "Internal server error during deletion")]
    /\ UNCHANGED <<fs, documents, sqlite_sequence, writer, now, nreq,
                   created, uploaded, delIssued>>

\* lines 289-292: DELETE FROM documents WHERE id = ?; a statement that
\* changes a row needs the write lock
DelExec(p) ==
    /\ rq[p].op = "delete" /\ rq[p].pc = "exec"
    /\ LET rowcount == Cardinality(SelectById(rq[p].document_id))
       IN  /\ rowcount > 0 => writer = 0
           /\ writer' = IF rowcount > 0 THEN p ELSE writer
           /\ rq' = [rq EXCEPT ![p].pc = "commit", ![p].rowcount = rowcount]
    /\ UNCHANGED <<fs, documents, sqlite_sequence, now, nreq, faults,
                   created, uploaded, delIssued>>

DelExecFail(p) ==
    /\ rq[p].op = "delete" /\ rq[p].pc = "exec"
    /\ CanFail
    /\ faults' = faults + 1
    /\ rq' = [rq EXCEPT ![p] =
                Finish([rq[p] EXCEPT !.fault = rq[p].pc], 500,
                       "Internal server error during deletion")]
    /\ UNCHANGED <<fs, documents, sqlite_sequence, writer, now, nreq,
                   created, uploaded, delIssued>>

\* DeleteAnswer without the rowcount check
DeleteAnswer_AlwaysOk(r) == Finish(r, 200, "Document deleted successfully")

\* lines 293-301: the commit, then the answer by rowcount
DeleteAnswer(r) ==
    IF r.rowcount = 0 THEN Finish(r, 404, "Document not found")
    ELSE Finish(r, 200, "Document deleted successfully")

DelCommit(p) ==
    /\ rq[p].op = "delete" /\ rq[p].pc = "commit"
    /\ documents' = IF writer = p
                    THEN documents \ SelectById(rq[p].document_id)
                    ELSE documents
    /\ writer' = Release(p)
    /\ rq' = [rq EXCEPT ![p] = DeleteAnswer(rq[p])]
    /\ UNCHANGED <<fs, sqlite_sequence, now, nreq, faults,
                   created, uploaded, delIssued>>

DelCommitFail(p) ==
    /\ rq[p].op = "delete" /\ rq[p].pc = "commit"
    /\ CanFail
    /\ faults' = faults + 1
    /\ writer' = Release(p)
    /\ rq' = [rq EXCEPT ![p] =
                Finish([rq[p] EXCEPT !.fault = rq[p].pc], 500,
                       "Internal server error during deletion")]
    /\ UNCHANGED <<fs, documents, sqlite_sequence, now, nreq,
                   created, uploaded, delIssued>>

(***************************************************************************)
(* get_documents                                                           *)
(***************************************************************************)
\* ORDER BY created_at DESC: any order of the rows in which created_at never
\* increases
RECURSIVE OrderByCreatedDesc(_)
OrderByCreatedDesc(S) ==
    IF S = {} THEN {<<>>}
    ELSE UNION {{<<r>> \o t : t \in OrderByCreatedDesc(S \ {r})} :
                 r \in {x \in S : \A y \in S : y.created_at <= x.created_at}}

\* SELECT id, original_name as filename, filesize, created_at
Listed(r) == [id |-> r.id, filename |-> r.original_name,
              filesize |-> r.filesize, created_at |-> r.created_at]

get_documents(p) ==
    /\ CanStart(p)
    /\ nreq' = nreq + 1
    /\ \E rows \in OrderByCreatedDesc(documents) :
         rq' = [rq EXCEPT ![p] =
                  Finish([Idle EXCEPT !.op = "list", !.listing =
                                        [i \in 1..Len(rows) |-> Listed(rows[i])]],
                         200, "")]
    /\ UNCHANGED <<fs, documents, sqlite_sequence, writer, now, faults,
                   created, uploaded, delIssued>>

(***************************************************************************)
(* The specification.                                                      *)
(***************************************************************************)
\* the ids a client asks for: every id assigned so far, and the next one
AskedIds == 1..(sqlite_sequence + 1)

Next ==
    \/ \E p \in Procs, f \in FileNames, c \in Contents, n \in RandomSuffixes :
         UploadBegin(p, f, c, n)
    \/ \E p \in Procs : UpOpen(p)
    \/ \E p \in Procs : UpOpenFail(p)
    \/ \E p \in Procs : UpWrite(p)
    \/ \E p \in Procs : UpWriteFail(p)
    \/ \E p \in Procs : UpStamp(p)
    \/ \E p \in Procs : UpInsert(p)
    \/ \E p \in Procs : UpInsertFail(p)
    \/ \E p \in Procs : UpCommit(p)
    \/ \E p \in Procs : UpCommitFail(p)
    \/ \E p \in Procs : UpReread(p)
    \/ \E p \in Procs : UpRereadFail(p)
    \/ \E p \in Procs : UpCleanup(p)
    \/ \E p \in Procs : UpCleanupFail(p)
    \/ \E p \in Procs, id \in AskedIds : DownloadBegin(p, id)
    \/ \E p \in Procs : DlCheck(p)
    \/ \E p \in Procs : DlSend(p)
    \/ \E p \in Procs, id \in AskedIds : DeleteBegin(p, id)
    \/ \E p \in Procs : DelUnlink(p)
    \/ \E p \in Procs : DelUnlinkFail(p)
    \/ \E p \in Procs : DelExec(p)
    \/ \E p \in Procs : DelExecFail(p)
    \/ \E p \in Procs : DelCommit(p)
    \/ \E p \in Procs : DelCommitFail(p)
    \/ \E p \in Procs : get_documents(p)

Spec == Init /\ [][Next]_vars

(***************************************************************************)
(* The service with requests that end without an answer: the process is    *)
(* killed, or the client of an upload goes away.                           *)
(***************************************************************************)
InFlight(p) == rq[p].pc \notin {"idle", "done"}

\* a request that ended without an answer
Aborted(r, how) == Finish([r EXCEPT !.fault = how], 0, "")

\* the server process dies and is started again: every request in flight is
\* lost where it stands, SQLite rolls the open transaction back, and the
\* files and the committed rows are what they were
Crash ==
    /\ \E p \in Procs : InFlight(p)
    /\ rq' = [p \in Procs |->
                IF InFlight(p) THEN Aborted(rq[p], "crash") ELSE rq[p]]
    /\ writer' = 0
    /\ UNCHANGED <<fs, documents, sqlite_sequence, now, nreq, faults,
                   created, uploaded, delIssued>>

\* the task of an upload is cancelled at the await it is suspended in:
\* asyncio.CancelledError is a BaseException, which neither except clause of
\* lines 179-190 catches, so the handler ends there; the file is closed by
\* the async with of line 146 and the connection by get_database (lines
\* 64-65), which rolls an open transaction back
UpCancel(p) ==
    /\ rq[p].op = "upload"
    /\ rq[p].pc \in {"open", "write", "stamp", "insert", "commit", "reread"}
    /\ rq' = [rq EXCEPT ![p] = Aborted(rq[p], "cancel")]
    /\ writer' = Release(p)
    /\ UNCHANGED <<fs, documents, sqlite_sequence, now, nreq, faults,
                   created, uploaded, delIssued>>

NextAbort ==
    \/ Next
    \/ Crash
    \/ \E p \in Procs : UpCancel(p)

SpecAbort == Init /\ [][NextAbort]_vars

(***************************************************************************)
(* The uploads one after the other, over every kind of file name and body. *)
(***************************************************************************)
GateFileNames == {<<"a",".","p","d","f">>, <<"A",".","P","D","F">>,
                  <<"a",".","t","x","t">>, <<"p","d","f">>}
GateContents == {Pdf(<<49, 50>>, 0),
                 Pdf(<<>>, MAX_FILE_SIZE - 4),
                 Pdf(<<>>, MAX_FILE_SIZE - 3),
                 EmptyBytes,
                 Bytes(<<37, 80, 68>>, 0),
                 Bytes(<<120, 37, 80, 68, 70>>, 0)}
GateSuffixes == {RAND_LO, RAND_HI}

GateUpload(p, filename, content, random_suffix) ==
    /\ \A q \in Procs : rq[q].pc \in {"idle", "done"}
    /\ UploadBegin(p, filename, content, random_suffix)

NextGate ==
    \/ \E p \in Procs, f \in GateFileNames, c \in GateContents,
          n \in GateSuffixes : GateUpload(p, f, c, n)
    \/ \E p \in Procs : UpOpen(p)
    \/ \E p \in Procs : UpWrite(p)
    \/ \E p \in Procs : UpStamp(p)
    \/ \E p \in Procs : UpInsert(p)
    \/ \E p \in Procs : UpCommit(p)
    \/ \E p \in Procs : UpReread(p)

SpecGate == Init /\ [][NextGate]_vars

(***************************************************************************)
(* Properties.                                                             *)
(***************************************************************************)
Uploads == {p \in Procs : rq[p].op = "upload"}
Downloads == {p \in Procs : rq[p].op = "download"}
Deletes == {p \in Procs : rq[p].op = "delete"}
Lists == {p \in Procs : rq[p].op = "list"}
IsDone(p) == rq[p].pc = "done"

\* an upload between its blob write and its index commit
UploadMidCommit ==
    \E p \in Uploads : rq[p].pc \in {"stamp", "insert", "commit"}

\* C1: outside the window in which an upload has written its blob and not
\* yet committed its row, every row of the index has its blob in the upload
\* directory.
C1_EveryRowHasItsBlob ==
    ~UploadMidCommit => \A r \in documents : Exists(r.filepath)

\* C2: a download of an id that a successful upload returned, started after
\* that answer and with no delete of the id started before the download
\* ended, returns exactly the bytes uploaded.
C2_RoundTrip ==
    \A p \in Downloads :
        (IsDone(p) /\ rq[p].known) =>
            /\ rq[p].status = 200
            /\ rq[p].sent = uploaded[rq[p].document_id]

\* C3: when the key an upload generated names a file that exists already,
\* the blob write fails the upload and leaves that file as it was.
C3_WriteNeverOverwrites ==
    [][\A p \in Procs :
          (/\ rq[p].op = "upload" /\ rq[p].pc = "open"
           /\ Exists(rq[p].file_path)
           /\ rq'[p] # rq[p])
          => (rq'[p].pc = "cleanup" /\ fs' = fs)]_vars

\* C4: no two rows ever committed, live or deleted, carry the same storage
\* key.
C4_StorageKeysUnique ==
    \A e1 \in created, e2 \in created :
        e1[2].id # e2[2].id => e1[2].filename # e2[2].filename

\* the file name ends in ".pdf", in any mix of cases
IsPdfName(f) ==
    LET n == Len(f)
    IN  /\ n >= 4
        /\ f[n-3] = "."
        /\ f[n-2] \in {"p", "P"}
        /\ f[n-1] \in {"d", "D"}
        /\ f[n] \in {"f", "F"}

\* the body begins with the four bytes %PDF
HasPdfSignature(c) ==
    /\ ByteLen(c) >= 4
    /\ <<ByteAt(c, 1), ByteAt(c, 2), ByteAt(c, 3), ByteAt(c, 4)>>
         = <<37, 80, 68, 70>>

RejectedByValidator(r) ==
    /\ r.pc = "done"
    /\ r.status = 400
    /\ r.detail = "Only PDF files are allowed"

\* C5: the validator rejects an upload exactly when its file name does not
\* end in ".pdf" (in any case) or its body does not begin with %PDF; the
\* rejection is a client error and leaves the upload directory and the
\* index as they were.
C5_ValidatorRejection ==
    [][\A p \in Procs :
          (rq[p].pc = "idle" /\ rq'[p].op = "upload") =>
            /\ RejectedByValidator(rq'[p])
                 <=> ~(/\ IsPdfName(rq'[p].filename)
                       /\ HasPdfSignature(rq'[p].content))
            /\ RejectedByValidator(rq'[p]) =>
                 /\ fs' = fs
                 /\ documents' = documents
                 /\ sqlite_sequence' = sqlite_sequence]_vars

C5_Witness ==
    \E p \in Uploads :
        /\ RejectedByValidator(rq[p])
        /\ IsPdfName(rq[p].filename)
        /\ ~HasPdfSignature(rq[p].content)
        /\ documents # {}
        /\ DOMAIN fs # {}

\* C6: an upload the validator accepts goes on to the blob write exactly
\* when its length n has 1 <= n <= 10 MiB; otherwise it ends as a client
\* error with the upload directory and the index as they were; a body of
\* exactly 10 MiB is stored and answered with success.
C6_SizeGate ==
    [][\A p \in Procs :
          rq'[p].op = "upload" =>
            LET r == rq'[p]
                n == ByteLen(r.content)
                accepted == IsPdfName(r.filename) /\ HasPdfSignature(r.content)
            IN  /\ (rq[p].pc = "idle" /\ accepted) =>
                      (r.pc = "open" <=> (1 <= n /\ n <= 10485760))
                /\ (rq[p].pc = "idle" /\ r.pc # "open") =>
                      /\ r.pc = "done" /\ r.status = 400
                      /\ fs' = fs
                      /\ documents' = documents
                      /\ sqlite_sequence' = sqlite_sequence
                /\ (r.pc = "done" /\ accepted /\ n = 10485760) =>
                      /\ r.status = 200
                      /\ \A row \in r.doc_row : row.filesize = n]_vars

C6_Witness ==
    \E p \in Uploads, q \in Uploads :
        /\ IsDone(p) /\ rq[p].status = 200
        /\ ByteLen(rq[p].content) = 10485760
        /\ \E row \in documents :
             row \in rq[p].doc_row /\ ByteLen(fs[row.filepath].data) = 10485760
        /\ IsDone(q) /\ rq[q].status = 400
        /\ rq[q].detail = "File size exceeds 10MB limit"
        /\ ByteLen(rq[q].content) = 10485761

BlobWriteFailed(r) == r.op = "upload" /\ r.fault \in {"open", "write"}

\* C7: an upload whose blob write failed never reaches the index insert: it
\* ends as a server fault, no row of it is ever committed, and its steps
\* leave the rows of the index as they were.
C7_NoInsertAfterFailedWrite ==
    [][\A p \in Procs :
          BlobWriteFailed(rq'[p]) =>
            /\ rq'[p].pc \in {"cleanup", "done"}
            /\ rq'[p].pc = "done" => rq'[p].status = 500
            /\ rq'[p].lastrowid = 0
            /\ \A e \in created' : e[1] # p
            /\ rq'[p] # rq[p] =>
                 /\ documents' = documents
                 /\ sqlite_sequence' = sqlite_sequence]_vars

C7_Witness ==
    \E p \in Uploads :
        /\ rq[p].fault = "write"
        /\ IsDone(p) /\ rq[p].status = 500
        /\ documents # {}

IndexWriteFailed(r) == r.op = "upload" /\ r.fault \in {"insert", "commit"}

\* C8: an upload whose insert or commit failed after its blob was written
\* passes through the removal of the file at its key before it answers, and
\* answers with a server fault; if that removal did not fail, no file is left
\* at the key; no row of the upload is ever committed, so every record a
\* list returns belongs to another request.
C8_CompensationAfterFailedInsert ==
    [][\A p \in Procs :
          IndexWriteFailed(rq'[p]) =>
            /\ rq'[p].pc \in {"cleanup", "done"}
            /\ (rq'[p].pc = "done" /\ rq[p].pc # "done") =>
                 /\ rq[p].pc = "cleanup"
                 /\ rq'[p].status = 500
                 /\ ~rq'[p].unlinkFailed => rq[p].file_path \notin DOMAIN fs'
            /\ \A e \in created' : e[1] # p
            /\ \A q \in Procs :
                 rq'[q].op = "list" =>
                   \A i \in 1..Len(rq'[q].listing) :
                     \E e \in created' :
                       e[1] # p /\ Listed(e[2]) = rq'[q].listing[i]]_vars

C8_Witness ==
    \E p \in Uploads, q \in Lists :
        /\ p < q
        /\ rq[p].fault = "commit"
        /\ IsDone(p) /\ rq[p].status = 500 /\ ~rq[p].unlinkFailed
        /\ IsDone(q) /\ Len(rq[q].listing) >= 1

\* p and q are the only deletes of their id, and no upload runs beside them
TwoDeletesAlone(p, q) ==
    /\ p < q
    /\ rq[p].document_id = rq[q].document_id
    /\ rq[p].found
    /\ \A r \in Procs \ {p, q} :
         /\ rq[r].op # "upload"
         /\ ~(rq[r].op = "delete" /\ rq[r].document_id = rq[p].document_id)

\* C9: of two deletes of one existing id that both ended with no injected
\* failure, one answers success and the other NotFound, and then neither the
\* row nor the blob of the id exists.
C9_TwoDeletes ==
    \A p \in Deletes, q \in Deletes :
        (/\ TwoDeletesAlone(p, q)
         /\ IsDone(p) /\ IsDone(q)
         /\ rq[p].fault = "" /\ rq[q].fault = "")
        => /\ {rq[p].status, rq[q].status} = {200, 404}
           /\ SelectById(rq[p].document_id) = {}
           /\ \A e \in created :
                e[2].id = rq[p].document_id => ~Exists(e[2].filepath)

C9_Witness ==
    \E p \in Deletes, q \in Deletes :
        /\ TwoDeletesAlone(p, q)
        /\ rq[q].found
        /\ IsDone(p) /\ IsDone(q)
        /\ rq[p].fault = "" /\ rq[q].fault = ""
        /\ rq[p].status = 404 /\ rq[q].status = 200

\* C10: with no upload running, a download ends with the bytes that were
\* uploaded under its id or with NotFound, whatever a delete of the same id
\* does meanwhile.
C10_DownloadDuringDelete ==
    \A p \in Downloads :
        (IsDone(p) /\ \A r \in Procs : rq[r].op # "upload") =>
            \/ rq[p].status = 404
            \/ /\ rq[p].status = 200
               /\ rq[p].document_id \in DOMAIN uploaded
               /\ rq[p].sent = uploaded[rq[p].document_id]

\* an upload in flight may still return id
Pending(id) ==
    \E q \in Uploads : rq[q].pc \in {"commit", "reread"}
                        /\ rq[q].lastrowid = id

\* no successful upload has returned id, and none in flight is about to
NeverReturned(id) == id \notin DOMAIN uploaded /\ ~Pending(id)

\* C11: every step of a download or a delete of an id that no successful
\* upload returned leaves the upload directory and the index as they were,
\* and the request ends with NotFound.
C11_UnknownIdIsNotFound ==
    [][\A p \in Procs :
          (/\ rq'[p].op \in {"download", "delete"}
           /\ rq'[p] # rq[p]
           /\ NeverReturned(rq'[p].document_id))
          => /\ fs' = fs
             /\ documents' = documents
             /\ rq'[p].pc = "done" => rq'[p].status = 404]_vars

\* C12: a list returns exactly the rows of the index, each once, by
\* created_at descending, and rows with equal created_at in the order of
\* their insertion.
C12_ListOrder ==
    [][\A p \in Procs :
          (rq'[p].op = "list" /\ rq[p].op # "list") =>
            LET l == rq'[p].listing
            IN  /\ Len(l) = Cardinality(documents)
                /\ {l[i] : i \in 1..Len(l)} = {Listed(r) : r \in documents}
                /\ \A i \in 1..Len(l), j \in 1..Len(l) :
                      i < j =>
                        \/ l[i].created_at > l[j].created_at
                        \/ /\ l[i].created_at = l[j].created_at
                           /\ l[i].id < l[j].id]_vars

\* C13: the rows ever committed have different ids, and a commit adds a row
\* whose id is greater than the id of every row committed before it, live or
\* deleted.
C13_IdsNeverReused ==
    [][/\ \A e1 \in created', e2 \in created' :
            e1[2].id = e2[2].id => e1 = e2
       /\ \A e \in created' \ created :
            /\ e[2].id >= 1
            /\ \A old \in created : old[2].id < e[2].id
       /\ \A p \in Procs :
            (rq[p].pc = "insert" /\ rq'[p].pc = "commit") =>
               \A old \in created : old[2].id < rq'[p].lastrowid]_vars

\* an insert got its id after the row with the largest id had been deleted:
\* the delete holds the write lock from its DELETE to its commit, so an
\* upload that stands before its commit when the delete has answered has
\* inserted after it
C13_Witness ==
    \E p \in Deletes, q \in Uploads :
        /\ IsDone(p) /\ rq[p].status = 200
        /\ rq[p].document_id = sqlite_sequence
        /\ documents = {}
        /\ rq[q].pc = "commit"
        /\ rq[q].lastrowid = rq[p].document_id + 1

\* C14: when a crash has interrupted a delete that ran alone, the row of its
\* id, if it is still in the index, has its blob: the crash may leave a blob
\* without a row and never a row without its blob.
C14_CrashLeavesNoOrphanRow ==
    \A p \in Deletes :
        (/\ rq[p].fault = "crash"
         /\ \A q \in Procs \ {p} : rq[q].op = "none")
        => \A r \in SelectById(rq[p].document_id) : Exists(r.filepath)

\* C17: an upload cancelled between the start of its blob write and the
\* commit of its insert runs the removal of the file at its key before it
\* ends.
C17_CancelRunsCompensation ==
    [][\A p \in Procs :
          (/\ rq[p].op = "upload"
           /\ rq[p].pc \in {"write", "stamp", "insert", "commit"}
           /\ rq'[p].fault = "cancel")
          => rq'[p].pc = "cleanup"]_vars

\* C15: the filesize of every row whose blob exists is the length of the
\* file at the row's path.
C15_SizeMatchesBlob ==
    \A r \in documents :
        Exists(r.filepath) => r.filesize = ByteLen(fs[r.filepath].data)

\* C16: of two rows of the index, the one with the smaller id has the
\* smaller or the same created_at.
C16_CreatedAtMonotone ==
    \A a \in documents, b \in documents :
        a.id < b.id => a.created_at <= b.created_at

\* C18: an upload that passed the validator and the size check stands at
\* stream position 0; its blob write stores the whole body, as many bytes as
\* the file_size it measured, and the row it commits records that length.
C18_StreamPositionRestored ==
    [][\A p \in Procs :
          /\ (rq[p].pc = "idle" /\ rq'[p].pc = "open") => rq'[p].pos = 0
          /\ (rq[p].pc = "write" /\ rq'[p].pc = "stamp") =>
                /\ rq[p].pos = 0
                /\ rq[p].file_path \in DOMAIN fs'
                /\ fs'[rq[p].file_path].data = rq[p].content
                /\ ByteLen(fs'[rq[p].file_path].data) = rq[p].file_size
          /\ (rq[p].pc = "commit" /\ rq'[p].pc = "reread") =>
                \A e \in created' \ created :
                    /\ e[2].filesize = ByteLen(rq[p].content)
                    /\ e[2].filesize = ByteLen(fs'[e[2].filepath].data)]_vars

\* a body longer than the header the validator read was stored whole
C18_Witness ==
    \E p \in Uploads, row \in documents :
        /\ IsDone(p) /\ rq[p].status = 200
        /\ row \in rq[p].doc_row
        /\ ByteLen(rq[p].content) > HEADER_BYTES
        /\ fs[row.filepath].data = rq[p].content
        /\ row.filesize = ByteLen(rq[p].content)

\* C19: an upload whose re-read finds no row ends there as the server fault
\* "Failed to retrieve uploaded document": the step removes no file and
\* leaves the index, its id counter and its lock as they were.
C19_NoRollbackAfterEmptyReread ==
    [][\A p \in Procs :
          (/\ rq[p].op = "upload" /\ rq[p].pc = "reread"
           /\ SelectById(rq[p].lastrowid) = {}
           /\ rq'[p] # rq[p]
           /\ rq'[p].fault # "reread")
          => /\ rq'[p].pc = "done"
             /\ rq'[p].status = 500
             /\ rq'[p].detail = "Failed to retrieve uploaded document"
             /\ fs' = fs
             /\ documents' = documents
             /\ sqlite_sequence' = sqlite_sequence
             /\ writer' = writer]_vars

\* a delete of the new id ran between the commit and the re-read
C19_Witness ==
    \E p \in Uploads, q \in Deletes :
        /\ IsDone(p) /\ rq[p].status = 500
        /\ rq[p].detail = "Failed to retrieve uploaded document"
        /\ IsDone(q) /\ rq[q].status = 200
        /\ \E e \in created : e[1] = p /\ e[2].id = rq[q].document_id

\* C20: an upload the validator did not reject has a body of at least 4
\* bytes, so no upload ends as "Empty file not allowed"; an upload of no
\* bytes is rejected by the validator, as "Only PDF files are allowed".
C20_EmptyBranchUnreachable ==
    [][\A p \in Procs :
          (rq[p].pc = "idle" /\ rq'[p].op = "upload") =>
            /\ ~RejectedByValidator(rq'[p]) => ByteLen(rq'[p].content) >= 4
            /\ rq'[p].pc = "open" => rq'[p].file_size >= 4
            /\ rq'[p].detail # "Empty file not allowed"
            /\ ByteLen(rq'[p].content) = 0 => RejectedByValidator(rq'[p])]_vars

\* a file named like a PDF with no bytes was rejected by the validator
C20_Witness ==
    \E p \in Uploads :
        /\ IsPdfName(rq[p].filename)
        /\ rq[p].content = EmptyBytes
        /\ RejectedByValidator(rq[p])
====
